---- MODULE Spec2Model ----
(***************************************************************************)
(* Model of the LINE webhook relay of Solemn-Assistant (src/src/index.ts,  *)
(* and its earlier revision src/unnamed/part_000).                         *)
(*                                                                         *)
(* One behaviour is one invocation of the worker's fetch handler: the      *)
(* request, the environment and the revision of the handler are chosen in  *)
(* the initial state; the actions are the steps of the handler between its *)
(* suspension points, and the returns of the two outbound calls of every   *)
(* event pipeline.                                                         *)
(*                                                                         *)
(* Strings whose characters matter (message text, flag values, answer      *)
(* text) are sequences of one-character strings; signature strings are     *)
(* sequences of character codes.                                           *)
(***************************************************************************)
EXTENDS Integers, Sequences, FiniteSets, Bags, TLC

VARIABLES
    variant,    \* which revision of the handler runs: "index" or "part000"
    env,        \* Env: the bindings the handler reads
    backend,    \* the responses the answer backend may give to this invocation
    aggregate,  \* where Promise.all(tasks) stands: "none", "pending", "resolved", "rejected"
    request,    \* the Request: method, x-line-signature header, body
    response,   \* the Response the handler returned, or NoResponse
    parsed,     \* TRUE once JSON.parse(bodyText) has been attempted
    events,     \* payload.events once the batch is accepted
    pc,         \* per event: where its handleEvent promise stands
    question,   \* per event: the value of `question` at handleEvent line 83
    queries,    \* per event: the questions sent to the answer backend
    ansResp,    \* per event: what the answer backend returned
    replies,    \* per event: the reply-delivery calls made
    repResp,    \* per event: what the reply endpoint returned
    log         \* bag of console.error / console.warn entries

vars == <<variant, env, backend, aggregate, request, response, parsed, events, pc, question,
          queries, ansResp, replies, repResp, log>>

-----------------------------------------------------------------------------
(* Bounds of the model *)

MaxEvents == 3
MaxLen == 3
MaxMentions == 2
MaxSpan == 2
MaxSigLen == 3
MaxPad == 1
MaxOver == 2

(* content.slice(0, 1900) *)
MaxReplyChars == 1900

-----------------------------------------------------------------------------
(* Values *)

Absent == "<absent>"
BotId == "Ubot"
OtherId == "Uother"

Whitespace == {" "}

RECURSIVE TrimStart(_)
TrimStart(s) ==
    IF s = <<>> THEN <<>>
    ELSE IF Head(s) \in Whitespace THEN TrimStart(Tail(s)) ELSE s

RECURSIVE TrimEnd(_)
TrimEnd(s) ==
    IF s = <<>> THEN <<>>
    ELSE IF s[Len(s)] \in Whitespace THEN TrimEnd(SubSeq(s, 1, Len(s) - 1)) ELSE s

(* String.prototype.trim *)
Trim(s) == TrimEnd(TrimStart(s))

Max(a, b) == IF a >= b THEN a ELSE b
Min(a, b) == IF a <= b THEN a ELSE b

(* the relative-index rule of String.prototype.slice: a negative index
   counts from the end, and the result is clamped to 0..length *)
SliceBound(n, len) == IF n < 0 THEN Max(len + n, 0) ELSE Min(n, len)

(* String.prototype.slice(start, end) *)
Slice(s, start, end) ==
    LET from == SliceBound(start, Len(s))
        to   == SliceBound(end, Len(s))
    IN  IF from < to THEN SubSeq(s, from + 1, to) ELSE <<>>

(* String.prototype.slice(start) *)
SliceFrom(s, start) == Slice(s, start, Len(s))

LowerOf(c) ==
    CASE c = "T" -> "t" [] c = "R" -> "r" [] c = "U" -> "u" [] c = "E" -> "e"
      [] c = "Y" -> "y" [] c = "S" -> "s" [] c = "O" -> "o" [] c = "N" -> "n"
      [] c = "P" -> "p" [] c = "F" -> "f" [] c = "A" -> "a" [] c = "L" -> "l"
      [] OTHER -> c

(* String.prototype.toLowerCase *)
ToLowerCase(s) == [i \in 1..Len(s) |-> LowerOf(s[i])]

-----------------------------------------------------------------------------
(* Signature verification *)

RECURSIVE BitXor(_, _)
(* a.charCodeAt(i) ^ b.charCodeAt(i) *)
BitXor(a, b) ==
    IF a = 0 /\ b = 0 THEN 0
    ELSE (((a % 2) + (b % 2)) % 2) + 2 * BitXor(a \div 2, b \div 2)

RECURSIVE BitOr(_, _)
(* result |= ... *)
BitOr(a, b) ==
    IF a = 0 /\ b = 0 THEN 0
    ELSE Max((a % 2), (b % 2)) + 2 * BitOr(a \div 2, b \div 2)

RECURSIVE XorFold(_, _, _, _)
(* the loop of timingSafeEqual, from position i with accumulator result *)
XorFold(a, b, i, result) ==
    IF i > Len(a) THEN result
    ELSE XorFold(a, b, i + 1, BitOr(result, BitXor(a[i], b[i])))

(* a plausible slip: the loop is dropped, only the lengths are compared *)
timingSafeEqualLengthOnly(a, b) == Len(a) = Len(b)

(* a plausible slip: the loop stops one position short *)
timingSafeEqualSkipLast(a, b) ==
    IF Len(a) # Len(b) THEN FALSE
    ELSE XorFold(SubSeq(a, 1, Len(a) - 1), SubSeq(b, 1, Len(b) - 1), 1, 0) = 0

timingSafeEqual(a, b) ==
    IF Len(a) # Len(b) THEN FALSE ELSE XorFold(a, b, 1, 0) = 0

RECURSIVE SumCodes(_)
SumCodes(s) == IF s = <<>> THEN 0 ELSE Head(s) + SumCodes(Tail(s))

(* A number standing for the bytes of an event of the body *)
EventCode(e) ==
    IF e.isNull THEN 1
    ELSE 2 + Len(e.message.text) + 3 * Len(e.message.mention.mentionees)
           + (IF e.replyToken = "" THEN 0 ELSE 5)
           + (IF e.type = "message" THEN 7 ELSE 0)
           + (IF e.source.groupId = Absent THEN 0 ELSE 11)

(* A number standing for the bytes of bodyText *)
BodyCode(body) ==
    CASE body.kind = "garbage"  -> 0
      [] body.kind = "null"     -> 1
      [] body.kind = "noEvents" -> 2
      [] body.kind = "badEvents" -> 3
      [] OTHER -> 4 + Len(body.events)
                    + SumCodes([i \in 1..Len(body.events) |-> EventCode(body.events[i])])

(* crypto.subtle.sign("HMAC", key, bodyData) followed by arrayBufferToBase64:
   a keyed digest of the body, rendered as a string of fixed length.  The
   digest is a stand-in for HMAC-SHA256: a deterministic function of the
   body and of the secret. *)
HmacBase64(body, secret) ==
    LET d == ((BodyCode(body) * 5) + (secret * 3) + 1) % 16
    IN  <<(d % 4), (d \div 4)>>

NoSignature == [present |-> FALSE, value |-> <<>>]
Sig(v) == [present |-> TRUE, value |-> v]

(* a plausible slip: the header is matched as a prefix of the digest *)
verifyLineSignaturePrefix(body, signature, channelSecret) ==
    IF ~signature.present \/ signature.value = <<>> THEN FALSE
    ELSE LET computed == HmacBase64(body, channelSecret)
         IN  /\ Len(signature.value) <= Len(computed)
             /\ timingSafeEqual(SubSeq(computed, 1, Len(signature.value)), signature.value)

(* verifyLineSignature: `!signature` is true of null and of "" *)
verifyLineSignature(body, signature, channelSecret) ==
    IF ~signature.present \/ signature.value = <<>> THEN FALSE
    ELSE timingSafeEqual(HmacBase64(body, channelSecret), signature.value)

-----------------------------------------------------------------------------
(* Eligibility *)

NoMention == [present |-> FALSE, mentionees |-> <<>>]
Mention(ms) == [present |-> TRUE, mentionees |-> ms]

(* a plausible slip: the roomId test is forgotten *)
isDirectChatNoRoom(event) ==
    event.source.userId # Absent /\ event.source.groupId = Absent

isDirectChat(event) ==
    /\ event.source.userId # Absent
    /\ event.source.groupId = Absent
    /\ event.source.roomId = Absent

NoFlag == [present |-> FALSE, value |-> <<>>]
Flag(v) == [present |-> TRUE, value |-> v]

(* a plausible slip: the value is compared without being normalized *)
isDirectChatEnabledRaw(e) ==
    LET flag == e.ENABLE_DIRECT_CHAT_REPLY
    IN  IF ~flag.present \/ flag.value = <<>> THEN FALSE
        ELSE \/ flag.value = <<"t", "r", "u", "e">>
             \/ flag.value = <<"1">>
             \/ flag.value = <<"y", "e", "s">>
             \/ flag.value = <<"o", "n">>

isDirectChatEnabled(e) ==
    LET flag == e.ENABLE_DIRECT_CHAT_REPLY
    IN  IF ~flag.present \/ flag.value = <<>> THEN FALSE
        ELSE LET normalized == ToLowerCase(Trim(flag.value))
             IN  \/ normalized = <<"t", "r", "u", "e">>
                 \/ normalized = <<"1">>
                 \/ normalized = <<"y", "e", "s">>
                 \/ normalized = <<"o", "n">>

isTextMessage(message) == message.type = "text"

isBotMentioned(message, botUserId) ==
    LET mentionees == IF message.mention.present
                      THEN message.mention.mentionees ELSE <<>>
    IN  \E k \in 1..Len(mentionees) : mentionees[k].userId = botUserId

-----------------------------------------------------------------------------
(* Question extraction *)

RECURSIVE InsertDesc(_, _)
(* m goes after every entry whose index is >= its own: the sort is stable *)
InsertDesc(sorted, m) ==
    IF sorted = <<>> THEN <<m>>
    ELSE IF Head(sorted).index >= m.index
         THEN <<Head(sorted)>> \o InsertDesc(Tail(sorted), m)
         ELSE <<m>> \o sorted

RECURSIVE SortDesc(_)
(* [...mentionees].sort((a, b) => b.index - a.index) *)
SortDesc(ms) ==
    IF ms = <<>> THEN <<>>
    ELSE InsertDesc(SortDesc(SubSeq(ms, 1, Len(ms) - 1)), ms[Len(ms)])

RECURSIVE InsertAsc(_, _)
InsertAsc(sorted, m) ==
    IF sorted = <<>> THEN <<m>>
    ELSE IF Head(sorted).index <= m.index
         THEN <<Head(sorted)>> \o InsertAsc(Tail(sorted), m)
         ELSE <<m>> \o sorted

RECURSIVE SortAsc(_)
(* a.index - b.index *)
SortAsc(ms) ==
    IF ms = <<>> THEN <<>>
    ELSE InsertAsc(SortAsc(SubSeq(ms, 1, Len(ms) - 1)), ms[Len(ms)])

RECURSIVE RemoveSpans(_, _)
(* for (const m of sorted) text = text.slice(0, m.index) + text.slice(m.index + m.length) *)
RemoveSpans(text, sorted) ==
    IF sorted = <<>> THEN text
    ELSE LET m == Head(sorted)
         IN  RemoveSpans(Slice(text, 0, m.index) \o SliceFrom(text, m.index + m.length),
                         Tail(sorted))

(* a plausible slip: the comparator's operands are swapped, so the spans are
   removed lowest offset first *)
extractQuestionAscending(message) ==
    IF ~message.mention.present THEN message.text
    ELSE Trim(RemoveSpans(message.text, SortAsc(message.mention.mentionees)))

extractQuestion(message) ==
    IF ~message.mention.present THEN message.text
    ELSE Trim(RemoveSpans(message.text, SortDesc(message.mention.mentionees)))

-----------------------------------------------------------------------------
(* The request handler, up to the launch of the event pipelines *)

NoResponse == [status |-> 0, body |-> ""]
Response(text, code) == [status |-> code, body |-> text]

(* a plausible slip: the body is parsed before the signature is verified *)
RequestStageParseFirst(req, e) ==
    IF req.method # "POST" THEN "405"
    ELSE IF req.body.kind = "garbage" THEN "400"
    ELSE IF ~verifyLineSignature(req.body, req.signature, e.LINE_CHANNEL_SECRET) THEN "401"
    ELSE IF req.body.kind # "batch" THEN "throw"
    ELSE "accept"

(* fetch, lines 42-61: which exit the handler takes.  JSON.parse throws on a
   body that is not JSON ("400"); on a JSON value that has no array under
   `events`, payload.events.map throws a TypeError that nothing catches
   ("throw"). *)
RequestStage(req, e) ==
    IF req.method # "POST" THEN "405"
    ELSE IF ~verifyLineSignature(req.body, req.signature, e.LINE_CHANNEL_SECRET) THEN "401"
    ELSE IF req.body.kind = "garbage" THEN "400"
    ELSE IF req.body.kind # "batch" THEN "throw"
    ELSE "accept"

NotReached == [reached |-> FALSE, text |-> <<>>]
Reached(q) == [reached |-> TRUE, text |-> q]

Settled == {"done", "failed"}

(* handleEvent, index.ts lines 77-81 and part_000 lines 75-77 *)
Eligible(event, v, e) ==
    LET allowDirectChat == v = "index" /\ isDirectChat(event) /\ isDirectChatEnabled(e)
    IN  allowDirectChat \/ isBotMentioned(event.message, e.LINE_BOT_USER_ID)

(* a plausible slip: the `if (!question)` test is forgotten *)
LaunchNoEmptyCheck(event, v, e) ==
    IF event.isNull THEN [pc |-> "failed", question |-> NotReached, queries |-> <<>>]
    ELSE IF event.type # "message" \/ ~isTextMessage(event.message) \/ ~Eligible(event, v, e)
    THEN [pc |-> "done", question |-> NotReached, queries |-> <<>>]
    ELSE LET q == Trim(extractQuestion(event.message))
         IN  [pc |-> "awaitAnswer", question |-> Reached(q), queries |-> <<q>>]

(* handleEvent up to its first suspension point, the fetch of queryOpenAI:
   an async function runs synchronously until its first await, so this part
   runs inside payload.events.map.  An element of `events` that is null makes
   `event.type` throw, which rejects the promise. *)
Launch(event, v, e) ==
    IF event.isNull THEN [pc |-> "failed", question |-> NotReached, queries |-> <<>>]
    ELSE IF event.type # "message" THEN [pc |-> "done", question |-> NotReached, queries |-> <<>>]
    ELSE IF ~isTextMessage(event.message)
    THEN [pc |-> "done", question |-> NotReached, queries |-> <<>>]
    ELSE IF ~Eligible(event, v, e)
    THEN [pc |-> "done", question |-> NotReached, queries |-> <<>>]
    ELSE LET q == Trim(extractQuestion(event.message))
         IN  IF q = <<>> THEN [pc |-> "done", question |-> Reached(q), queries |-> <<>>]
             ELSE [pc |-> "awaitAnswer", question |-> Reached(q), queries |-> <<q>>]

(* a plausible slip: any failed event turns the acknowledgement into an error *)
BatchResponseFailing(p) ==
    IF \E i \in DOMAIN p : p[i] = "failed"
    THEN Response("Internal Server Error", 500) ELSE Response("OK", 200)

(* return new Response("OK", { status: 200 }), whatever the tasks did *)
BatchResponse(p) == Response("OK", 200)

(* a plausible slip: the first rejection aborts the tasks still running *)
OnRejectAbortSiblings(p, i) ==
    [j \in DOMAIN p |-> IF j = i \/ p[j] \notin Settled THEN "failed" ELSE p[j]]

(* handleEvent(event, env).catch(...): the rejection of one task is caught on
   that task alone *)
OnReject(p, i) == [p EXCEPT ![i] = "failed"]

(* console.error / console.warn entries *)
LogEntry(what, i) == SetToBag({<<what, i>>})

RejectMethod ==
    /\ response = NoResponse /\ ~parsed
    /\ RequestStage(request, env) = "405"
    /\ response' = Response("Method Not Allowed", 405)
    /\ UNCHANGED <<variant, env, backend, aggregate, request, parsed, events, pc, question, queries,
                   ansResp, replies, repResp, log>>

RejectSignature ==
    /\ response = NoResponse /\ ~parsed
    /\ RequestStage(request, env) = "401"
    /\ response' = Response("Invalid signature", 401)
    /\ UNCHANGED <<variant, env, backend, aggregate, request, parsed, events, pc, question, queries,
                   ansResp, replies, repResp, log>>

RejectParse ==
    /\ response = NoResponse /\ ~parsed
    /\ RequestStage(request, env) = "400"
    /\ parsed' = TRUE
    /\ log' = log (+) LogEntry("Failed to parse webhook payload", 0)
    /\ response' = Response("Bad Request", 400)
    /\ UNCHANGED <<variant, env, backend, aggregate, request, events, pc, question, queries,
                   ansResp, replies, repResp>>

(* The rejection of the handler's promise: the runtime answers the caller
   with its own error page. *)
Uncaught == Response("Uncaught TypeError", 500)

ThrowOnShape ==
    /\ response = NoResponse /\ ~parsed
    /\ RequestStage(request, env) = "throw"
    /\ parsed' = TRUE
    /\ response' = Uncaught
    /\ UNCHANGED <<variant, env, backend, aggregate, request, events, pc, question, queries,
                   ansResp, replies, repResp, log>>

NoAnswer == [returned |-> FALSE, ok |-> FALSE, text |-> <<>>]

(* payload.events.map(...) launches every pipeline; index.ts hands the
   aggregate to ctx.waitUntil and answers at once, part_000 awaits it. *)
AcceptBatch ==
    /\ response = NoResponse /\ ~parsed
    /\ RequestStage(request, env) = "accept"
    /\ parsed' = TRUE
    /\ events' = request.body.events
    /\ aggregate' = "pending"
    /\ LET n == Len(request.body.events)
           launched == [i \in 1..n |-> Launch(request.body.events[i], variant, env)]
       IN  /\ pc' = [i \in 1..n |-> launched[i].pc]
           /\ question' = [i \in 1..n |-> launched[i].question]
           /\ queries' = [i \in 1..n |-> launched[i].queries]
           /\ ansResp' = [i \in 1..n |-> NoAnswer]
           /\ replies' = [i \in 1..n |-> <<>>]
           /\ repResp' = [i \in 1..n |-> "none"]
           /\ IF variant = "index"
              THEN /\ log' = log (+) SetToBag({<<"Error handling event", i>> :
                                       i \in {j \in 1..n : launched[j].pc = "failed"}})
                   /\ response' = BatchResponse([i \in 1..n |-> launched[i].pc])
              ELSE UNCHANGED <<log, response>>
    /\ UNCHANGED <<variant, env, backend, request>>

-----------------------------------------------------------------------------
(* The event pipelines after their launch *)

(* What the answer backend may return: a non-2xx response, or a 2xx response
   whose text is empty, blank, or an answer with blanks around it *)
AnswerResponses ==
    { [ok |-> FALSE, text |-> <<>>],
      [ok |-> TRUE,  text |-> <<>>],
      [ok |-> TRUE,  text |-> <<" ">>],
      [ok |-> TRUE,  text |-> <<" ", "o", "k", " ">>] }

(* a plausible slip: an empty answer is passed on instead of being thrown *)
queryOpenAINoEmptyCheck(resp) ==
    IF ~resp.ok THEN [threw |-> TRUE, answer |-> <<>>]
    ELSE [threw |-> FALSE, answer |-> Slice(Trim(resp.text), 0, MaxReplyChars)]

(* a plausible slip: the answer is passed on at its full length *)
queryOpenAINoTruncation(resp) ==
    IF ~resp.ok THEN [threw |-> TRUE, answer |-> <<>>]
    ELSE LET content == Trim(resp.text)
         IN  IF content = <<>> THEN [threw |-> TRUE, answer |-> <<>>]
             ELSE [threw |-> FALSE, answer |-> content]

(* queryOpenAI after its fetch returned: index.ts lines 154-166 (with
   extractOpenAIText, which yields the trimmed text or null), part_000 lines
   135-149 *)
queryOpenAI(resp) ==
    IF ~resp.ok THEN [threw |-> TRUE, answer |-> <<>>]
    ELSE LET content == Trim(resp.text)
         IN  IF content = <<>> THEN [threw |-> TRUE, answer |-> <<>>]
             ELSE [threw |-> FALSE, answer |-> Slice(content, 0, MaxReplyChars)]

(* replyToLine of index.ts returns without a call when the token is falsy;
   part_000 has no such test *)
SkipsDispatch(event, v) == v = "index" /\ event.replyToken = ""

(* a plausible slip: the user is sent an apology in place of the answer *)
ReplyCallFallbackText(event, message) ==
    [replyToken |-> event.replyToken, text |-> <<"s", "o", "r", "r", "y">>]

(* the body of the reply-delivery call: the token of the event and the
   message handed to replyToLine *)
ReplyCall(event, message) ==
    [replyToken |-> event.replyToken, text |-> message]

ErrorLog(v, i) ==
    IF v = "index" THEN LogEntry("Error handling event", i) ELSE EmptyBag

AnswerReturns(i) ==
    /\ pc[i] = "awaitAnswer"
    /\ \E resp \in backend :
         LET r == queryOpenAI(resp)
         IN  /\ ansResp' = [ansResp EXCEPT ![i] =
                              [returned |-> TRUE, ok |-> resp.ok, text |-> resp.text]]
             /\ IF r.threw
                THEN /\ pc' = OnReject(pc, i)
                     /\ log' = log (+) (IF resp.ok THEN EmptyBag
                                        ELSE LogEntry("OpenAI API error", i))
                                   (+) ErrorLog(variant, i)
                     /\ UNCHANGED replies
                ELSE IF SkipsDispatch(events[i], variant)
                THEN /\ pc' = [pc EXCEPT ![i] = "done"]
                     /\ log' = log (+) LogEntry("No reply token to respond", i)
                     /\ UNCHANGED replies
                ELSE /\ pc' = [pc EXCEPT ![i] = "awaitReply"]
                     /\ replies' = [replies EXCEPT ![i] =
                                      Append(@, ReplyCall(events[i], r.answer))]
                     /\ UNCHANGED log
    /\ UNCHANGED <<variant, env, backend, aggregate, request, response, parsed, events, question,
                   queries, repResp>>

ReplyReturns(i) ==
    /\ pc[i] = "awaitReply"
    /\ \E ok \in BOOLEAN :
         IF ok
         THEN /\ repResp' = [repResp EXCEPT ![i] = "ok"]
              /\ pc' = [pc EXCEPT ![i] = "done"]
              /\ UNCHANGED log
         ELSE /\ repResp' = [repResp EXCEPT ![i] = "failed"]
              /\ pc' = OnReject(pc, i)
              /\ log' = log (+) LogEntry("LINE reply error", i) (+) ErrorLog(variant, i)
    /\ UNCHANGED <<variant, env, backend, aggregate, request, response, parsed, events, question,
                   queries, ansResp, replies>>

(* JSON.parse returned an object with an array under `events`: the tasks
   were launched *)
Accepted == parsed /\ request.body.kind = "batch"

(* a plausible slip: the .catch is left out, so a failed pipeline rejects
   its task *)
TaskOutcomeNoCatch(p) ==
    IF p = "done" THEN "fulfilled" ELSE IF p = "failed" THEN "rejected" ELSE "pending"

(* a task is handleEvent(event, env).catch(...): the handler of the catch
   returns a value, so the task is fulfilled whether the pipeline resolved
   or rejected *)
TaskOutcome(p) == IF p \in Settled THEN "fulfilled" ELSE "pending"

(* Promise.all(tasks): rejected as soon as one task is rejected, fulfilled
   once all tasks are *)
PromiseAll(outcomes) ==
    IF \E i \in DOMAIN outcomes : outcomes[i] = "rejected" THEN "rejected"
    ELSE IF \A i \in DOMAIN outcomes : outcomes[i] = "fulfilled" THEN "resolved"
    ELSE "pending"

(* the aggregate settles: index.ts line 67 hands it to ctx.waitUntil,
   part_000 line 58 awaits it *)
AggregateSettles ==
    /\ aggregate = "pending"
    /\ PromiseAll([i \in DOMAIN pc |-> TaskOutcome(pc[i])]) # "pending"
    /\ aggregate' = PromiseAll([i \in DOMAIN pc |-> TaskOutcome(pc[i])])
    /\ UNCHANGED <<variant, env, backend, request, response, parsed, events, pc,
                   question, queries, ansResp, replies, repResp, log>>

(* part_000 lines 58-67: once every task has settled, the first failed result
   is logged and the request is acknowledged *)
Respond ==
    /\ variant = "part000"
    /\ Accepted
    /\ response = NoResponse
    /\ aggregate = "resolved"
    /\ LET failed == {i \in DOMAIN pc : pc[i] = "failed"}
       IN  log' = IF failed = {} THEN log
                  ELSE log (+) LogEntry("Error handling event",
                                        CHOOSE i \in failed : \A j \in failed : i <= j)
    /\ response' = BatchResponse(pc)
    /\ UNCHANGED <<variant, env, backend, aggregate, request, parsed, events, pc, question, queries,
                   ansResp, replies, repResp>>

-----------------------------------------------------------------------------
(* Inputs *)

Source(u, g, r) == [userId |-> u, groupId |-> g, roomId |-> r]

OneToOne == Source("U1", Absent, Absent)
InGroup == Source("U1", "G1", Absent)
InRoom == Source("U1", Absent, "R1")

Mentionee(i, l, u) == [index |-> i, length |-> l, userId |-> u]

TextMessage(t, m) == [type |-> "text", text |-> t, mention |-> m]
ImageMessage == [type |-> "image", text |-> <<>>, mention |-> NoMention]

MessageEvent(token, src, msg) ==
    [isNull |-> FALSE, type |-> "message", replyToken |-> token, source |-> src,
     message |-> msg]

(* a null element of the events array *)
NullEvent ==
    [isNull |-> TRUE, type |-> "", replyToken |-> "",
     source |-> Source(Absent, Absent, Absent), message |-> ImageMessage]

(* "@B hi" in a group, the bot mentioned *)
GroupAsk ==
    MessageEvent("t1", InGroup,
        TextMessage(<<"@", "B", " ", "h", "i">>, Mention(<<Mentionee(0, 2, BotId)>>)))

(* the same without a reply token *)
GroupAskNoToken ==
    MessageEvent("", InGroup,
        TextMessage(<<"@", "B", " ", "h", "i">>, Mention(<<Mentionee(0, 2, BotId)>>)))

(* "yo" in a one-to-one conversation, nobody mentioned *)
DirectAsk == MessageEvent("t2", OneToOne, TextMessage(<<"y", "o">>, NoMention))

(* "@B " in a group: nothing is left once the mention is removed *)
GroupMentionOnly ==
    MessageEvent("t4", InGroup,
        TextMessage(<<"@", "B", " ">>, Mention(<<Mentionee(0, 2, BotId)>>)))

EventPool == {GroupAsk, GroupAskNoToken, DirectAsk, GroupMentionOnly, NullEvent}

RECURSIVE SeqsUpTo(_, _)
(* the sequences over S of length at most n *)
SeqsUpTo(S, n) ==
    IF n = 0 THEN {<<>>}
    ELSE LET shorter == SeqsUpTo(S, n - 1)
         IN  shorter \cup {Append(q, x) : q \in {t \in shorter : Len(t) = n - 1}, x \in S}

Batch(evs) == [kind |-> "batch", events |-> evs]
NonBatch(k) == [kind |-> k, events |-> <<>>]

Bodies ==
    {NonBatch("garbage"), NonBatch("null"), NonBatch("noEvents"), NonBatch("badEvents")}
        \cup {Batch(evs) : evs \in SeqsUpTo(EventPool, MaxEvents)}

Secret == 1

(* the header values tried against a body: none, empty, the right one, the
   one of another secret, one with a character changed, one cut short *)
SignaturesFor(body) ==
    LET good == HmacBase64(body, Secret)
    IN  { NoSignature, Sig(<<>>), Sig(good), Sig(HmacBase64(body, Secret + 1)),
          Sig([good EXCEPT ![1] = (@ + 1) % 4]), Sig(SubSeq(good, 1, 1)) }

Envs ==
    [LINE_CHANNEL_SECRET : {Secret}, LINE_BOT_USER_ID : {BotId},
     ENABLE_DIRECT_CHAT_REPLY : {NoFlag, Flag(<<"O", "n">>)}]

InitPipelines ==
    /\ aggregate = "none"
    /\ response = NoResponse
    /\ parsed = FALSE
    /\ events = <<>>
    /\ pc = <<>>
    /\ question = <<>>
    /\ queries = <<>>
    /\ ansResp = <<>>
    /\ replies = <<>>
    /\ repResp = <<>>
    /\ log = EmptyBag

InitRest == InitPipelines /\ backend = AnswerResponses

DirectChatOn ==
    [LINE_CHANNEL_SECRET |-> Secret, LINE_BOT_USER_ID |-> BotId,
     ENABLE_DIRECT_CHAT_REPLY |-> Flag(<<"O", "n">>)]

Init ==
    /\ variant \in {"index", "part000"}
    /\ env = DirectChatOn
    /\ \E body \in Bodies, method \in {"POST", "GET"} :
         \E sig \in SignaturesFor(body) :
            request = [method |-> method, signature |-> sig, body |-> body]
    /\ InitRest

Next ==
    \/ RejectMethod
    \/ RejectSignature
    \/ RejectParse
    \/ ThrowOnShape
    \/ AcceptBatch
    \/ \E i \in DOMAIN pc : AnswerReturns(i)
    \/ \E i \in DOMAIN pc : ReplyReturns(i)
    \/ AggregateSettles
    \/ Respond

Spec == Init /\ [][Next]_vars

-----------------------------------------------------------------------------
(* Properties of the request handler and of the batch (specification Spec) *)

SignatureValid ==
    /\ request.signature.present
    /\ request.signature.value = HmacBase64(request.body, env.LINE_CHANNEL_SECRET)

Authenticated == request.method = "POST" /\ SignatureValid

AnswerCallMade == \E i \in DOMAIN queries : queries[i] # <<>>
ReplyCallMade == \E i \in DOMAIN replies : replies[i] # <<>>

(* C1: the body is parsed, an answer call is made or a reply call is made
   only for a POST request whose x-line-signature header is present and
   equals the base64 HMAC of the body under the channel secret. *)
C1_AuthenticationGates ==
    (parsed \/ events # <<>> \/ AnswerCallMade \/ ReplyCallMade) => Authenticated

(* an authenticated request has led to a reply call *)
C1_Witness == Authenticated /\ ReplyCallMade

(* C2: an authenticated POST whose body is not a batch (unparseable, or JSON
   without an array under `events`) is answered with 400 and processes no
   event. *)
C2_MalformedIs400 ==
    (Authenticated /\ request.body.kind # "batch" /\ response # NoResponse)
        => (response.status = 400 /\ events = <<>>)

(* the event alone decides whether its pipeline asks the answer backend *)
Asks(event) == Launch(event, variant, env).pc = "awaitAnswer"

AnswerFailed(i) ==
    ansResp[i].returned /\ (~ansResp[i].ok \/ Trim(ansResp[i].text) = <<>>)

AnswerSucceeded(i) ==
    ansResp[i].returned /\ ansResp[i].ok /\ Trim(ansResp[i].text) # <<>>

(* C3: for every event of an accepted batch, whether a reply call is made,
   whether the reply is delivered and whether the pipeline fails are decided
   by the event itself and by the outcomes of its own answer and reply calls,
   in every interleaving; in a batch of three eligible events where only the
   second one's answer call fails, the first and the third are replied to and
   the response is 200. *)
C3_SiblingIsolation ==
    Accepted =>
      /\ \A i \in DOMAIN pc :
           /\ (replies[i] # <<>>) <=>
                 (Asks(events[i]) /\ AnswerSucceeded(i) /\ ~SkipsDispatch(events[i], variant))
           /\ (pc[i] = "failed") <=>
                 (events[i].isNull \/ AnswerFailed(i) \/ repResp[i] = "failed")
           /\ (pc[i] = "done" /\ Asks(events[i])) =>
                 (AnswerSucceeded(i) /\ (replies[i] # <<>> => repResp[i] = "ok"))
      /\ ( /\ Len(events) = 3
           /\ \A i \in 1..3 : Asks(events[i]) /\ events[i].replyToken # ""
           /\ \A i \in 1..3 : pc[i] \in Settled
           /\ AnswerFailed(2) /\ AnswerSucceeded(1) /\ AnswerSucceeded(3)
           /\ repResp[1] # "failed" /\ repResp[3] # "failed" )
         => ( /\ repResp[1] = "ok" /\ repResp[3] = "ok" /\ replies[2] = <<>>
              /\ response \in {NoResponse, Response("OK", 200)} )

(* three eligible events, the second one's answer call failed, the other two
   replied to, the request acknowledged *)
C3_Witness ==
    /\ Len(events) = 3
    /\ \A i \in 1..3 : Asks(events[i])
    /\ AnswerFailed(2)
    /\ repResp[1] = "ok" /\ repResp[3] = "ok"
    /\ response = Response("OK", 200)

(* C4: an authenticated POST with a well-formed batch is answered with 200
   "OK" whatever became of its events, and a batch of zero events causes no
   call and no log entry. *)
C4_Acknowledged ==
    (Authenticated /\ request.body.kind = "batch") =>
      /\ response \in {NoResponse, Response("OK", 200)}
      /\ (variant = "index" /\ parsed) => response = Response("OK", 200)
      /\ request.body.events = <<>> =>
            (log = EmptyBag /\ ~AnswerCallMade /\ ~ReplyCallMade)

(* the request is acknowledged although an answer call, a delivery and the
   handling of a null element failed *)
C4_Witness ==
    /\ response = Response("OK", 200)
    /\ \E i, j, k \in DOMAIN pc :
         /\ AnswerFailed(i)
         /\ repResp[j] = "failed"
         /\ events[k].isNull /\ pc[k] = "failed"

(* C5: a request that is not a POST gets 405 whatever its signature and
   body; a POST without a valid signature gets 401 whatever its body; 400 is
   only returned to an authenticated request. *)
C5_CheckOrder ==
    response # NoResponse =>
      /\ request.method # "POST" => response.status = 405
      /\ (request.method = "POST" /\ ~SignatureValid) => response.status = 401
      /\ response.status = 400 => Authenticated

(* a POST with a wrong signature and an unparseable body was answered 401 *)
C5_Witness ==
    /\ response.status = 401
    /\ request.signature.present
    /\ request.body.kind = "garbage"

(* C8: every event makes at most one answer call and at most one reply call,
   and a reply call is made only once the event's answer call has returned a
   2xx response with a non-blank text. *)
C8_OrderAndAtMostOnce ==
    \A i \in DOMAIN pc :
      /\ Len(queries[i]) <= 1
      /\ Len(replies[i]) <= 1
      /\ replies[i] # <<>> => (queries[i] # <<>> /\ AnswerSucceeded(i))
      /\ repResp[i] # "none" => replies[i] # <<>>
      /\ AnswerFailed(i) => (replies[i] = <<>> /\ pc[i] = "failed")
      /\ repResp[i] = "failed" => pc[i] = "failed"

(* a delivery failed and an answer came back blank: neither was retried *)
C8_Witness ==
    \E i, j \in DOMAIN pc :
      /\ repResp[i] = "failed" /\ Len(replies[i]) = 1
      /\ ansResp[j].returned /\ ansResp[j].ok /\ AnswerFailed(j)

-----------------------------------------------------------------------------
(* One event at a time: the eligibility policy and the gating of the calls
   (specification SpecEvent) *)

ValidRequest(body) ==
    [method |-> "POST", signature |-> Sig(HmacBase64(body, Secret)), body |-> body]

Sources == [userId : {"U1", Absent}, groupId : {"G1", Absent}, roomId : {"R1", Absent}]

PolicyTexts ==
    { <<"@", "B", " ", "h", "i">>, <<"@", "B", " ">>, <<" ">>, <<"h", "i">> }

PolicyMentions ==
    {NoMention} \cup
    {Mention(ms) : ms \in SeqsUpTo({Mentionee(0, 2, BotId), Mentionee(0, 2, OtherId),
                                    Mentionee(0, 2, Absent)}, MaxMentions)}

PolicyEvents ==
    { [isNull |-> FALSE, type |-> ty, replyToken |-> tok, source |-> src, message |-> msg] :
        ty \in {"message", "follow"}, tok \in {"t1", ""}, src \in Sources,
        msg \in {ImageMessage} \cup {TextMessage(t, m) : t \in PolicyTexts, m \in PolicyMentions} }

InitEvent ==
    /\ variant \in {"index", "part000"}
    /\ env \in Envs
    /\ \E e \in PolicyEvents : request = ValidRequest(Batch(<<e>>))
    /\ InitRest

NextEvent ==
    \/ AcceptBatch
    \/ \E i \in DOMAIN pc : AnswerReturns(i)
    \/ \E i \in DOMAIN pc : ReplyReturns(i)
    \/ AggregateSettles
    \/ Respond

SpecEvent == InitEvent /\ [][NextEvent]_vars

IsTextMessageEvent(event) ==
    ~event.isNull /\ event.type = "message" /\ event.message.type = "text"

(* config.directChatAllowed: part_000 has no direct-chat allowance *)
DirectChatAllowed == variant = "index" /\ isDirectChatEnabled(env)

OneToOneSource(event) ==
    /\ event.source.userId # Absent
    /\ event.source.groupId = Absent
    /\ event.source.roomId = Absent

MentionsBot(event) ==
    \E k \in 1..Len(event.message.mention.mentionees) :
        event.message.mention.mentionees[k].userId = env.LINE_BOT_USER_ID

PolicyAccepts(event) ==
    (OneToOneSource(event) /\ DirectChatAllowed) \/ MentionsBot(event)

(* C6: the pipeline of a text message event reaches question extraction
   exactly when (its source is one-to-one and direct chat is allowed) or a
   mention entry carries the bot's user id. *)
C6_Eligibility ==
    Accepted =>
      \A i \in DOMAIN pc :
        IsTextMessageEvent(events[i]) =>
          (question[i].reached <=> PolicyAccepts(events[i]))

(* a one-to-one message without a mention went on to extraction because
   direct chat is allowed *)
C6_Witness ==
    /\ Accepted
    /\ \E i \in DOMAIN pc :
         /\ IsTextMessageEvent(events[i])
         /\ OneToOneSource(events[i]) /\ ~MentionsBot(events[i])
         /\ question[i].reached

Logged(i) == \E entry \in BagToSet(log) : entry[2] = i

(* C7: an answer call is made for an event exactly when it is a message
   event with a text message that the policy accepts and whose extracted
   question is not empty; otherwise the event ends without an answer call,
   without a reply call and without a log entry. *)
C7_AnswerCallGate ==
    Accepted =>
      \A i \in DOMAIN pc :
        ~events[i].isNull =>
          /\ (queries[i] # <<>>) <=>
                /\ IsTextMessageEvent(events[i])
                /\ PolicyAccepts(events[i])
                /\ Trim(extractQuestion(events[i].message)) # <<>>
          /\ queries[i] = <<>> =>
                (pc[i] = "done" /\ replies[i] = <<>> /\ ~ansResp[i].returned /\ ~Logged(i))

(* an accepted message made of a mention alone ended without a call *)
C7_Witness ==
    /\ Accepted
    /\ \E i \in DOMAIN pc :
         /\ IsTextMessageEvent(events[i]) /\ PolicyAccepts(events[i])
         /\ events[i].message.text # <<" ">>
         /\ question[i] = Reached(<<>>)
         /\ pc[i] = "done" /\ queries[i] = <<>>
    /\ response = Response("OK", 200)

-----------------------------------------------------------------------------
(* Question extraction over all short texts and span lists (specification
   SpecExtract) *)

Letters == <<"a", "b", "c", "d", "e", "f", "g", "h">>

RECURSIVE TextsOfLen(_)
(* the texts of n characters whose i-th character is a blank or the i-th
   letter: a deleted position shows in the result *)
TextsOfLen(n) ==
    IF n = 0 THEN {<<>>}
    ELSE {Append(t, c) : t \in TextsOfLen(n - 1), c \in {" ", Letters[n]}}

Texts == UNION {TextsOfLen(n) : n \in 0..MaxLen}

Spans == {Mentionee(i, l, Absent) : i \in (0 - 1)..MaxLen, l \in 0..MaxSpan}

ExtractMentions == {NoMention} \cup {Mention(ms) : ms \in SeqsUpTo(Spans, MaxMentions)}

InitExtract ==
    /\ variant = "index"
    /\ env = DirectChatOn
    /\ \E t \in Texts, m \in ExtractMentions :
         request = ValidRequest(Batch(<<MessageEvent("t1", OneToOne, TextMessage(t, m))>>))
    /\ InitRest

SpecExtract == InitExtract /\ [][AcceptBatch]_vars

SpanStart(m) == m.index
SpanEnd(m) == m.index + m.length

InRange(text, ms) ==
    \A k \in 1..Len(ms) : 0 <= SpanStart(ms[k]) /\ SpanEnd(ms[k]) <= Len(text)

(* two entries share a position of the text *)
Overlapping(ms) ==
    \E k, l \in 1..Len(ms) :
        /\ k # l
        /\ Max(SpanStart(ms[k]), SpanStart(ms[l])) < Min(SpanEnd(ms[k]), SpanEnd(ms[l]))

Covered(ms, p) == \E k \in 1..Len(ms) : SpanStart(ms[k]) <= p /\ p < SpanEnd(ms[k])

RECURSIVE KeepUncovered(_, _, _)
(* the characters of text from (0-based) position p on that no span covers *)
KeepUncovered(text, ms, p) ==
    IF p >= Len(text) THEN <<>>
    ELSE (IF Covered(ms, p) THEN <<>> ELSE <<text[p + 1]>>) \o KeepUncovered(text, ms, p + 1)

Reorderings(ms) ==
    {[i \in 1..Len(ms) |-> ms[f[i]]] : f \in Permutations(1..Len(ms))}

(* C9: for a text and pairwise non-overlapping spans within it, the question
   is the text with exactly the covered positions deleted, then trimmed, and
   every reordering of the mentionees list gives the same question; without
   a mention object or with no mentionee it is the trimmed text. *)
C9_Extraction ==
    Accepted =>
      \A i \in DOMAIN pc :
        LET msg == events[i].message
            ms  == msg.mention.mentionees
        IN  (question[i].reached /\ InRange(msg.text, ms) /\ ~Overlapping(ms)) =>
              /\ question[i].text = Trim(KeepUncovered(msg.text, ms, 0))
              /\ \A other \in Reorderings(ms) :
                    Trim(extractQuestion(TextMessage(msg.text, Mention(other))))
                        = question[i].text
              /\ ms = <<>> => question[i].text = Trim(msg.text)

(* two mentions of one character or more, listed in increasing index order,
   were removed and a question is left *)
C9_Witness ==
    /\ Accepted
    /\ LET msg == events[1].message
           ms  == msg.mention.mentionees
       IN  /\ Len(ms) = 2
           /\ ms[1].length > 0 /\ ms[2].length > 0 /\ ms[1].index < ms[2].index
           /\ InRange(msg.text, ms) /\ ~Overlapping(ms)
           /\ question[1].reached /\ question[1].text # <<>>
           /\ queries[1] = <<question[1].text>>

(* C10: a message whose mention spans overlap yields no question, and none
   is sent to the answer backend. *)
C10_OverlapRejected ==
    Accepted =>
      \A i \in DOMAIN pc :
        LET msg == events[i].message
        IN  (InRange(msg.text, msg.mention.mentionees)
               /\ Overlapping(msg.mention.mentionees))
              => queries[i] = <<>>

(* C11: an event whose mention spans are out of range (negative index, or
   index + length beyond the text) is skipped: no answer call is made for
   it. *)
C11_OutOfRangeSkipped ==
    Accepted =>
      \A i \in DOMAIN pc :
        LET msg == events[i].message
        IN  ~InRange(msg.text, msg.mention.mentionees) => queries[i] = <<>>

-----------------------------------------------------------------------------
(* Signature verification over all short header values (specification
   SpecVerify) *)

SigChars == 0..3

VerifyBodies ==
    { NonBatch("garbage"), NonBatch("null"), NonBatch("noEvents"), NonBatch("badEvents"),
      Batch(<<>>), Batch(<<GroupAsk>>) }

HeaderValues == {NoSignature} \cup {Sig(v) : v \in SeqsUpTo(SigChars, MaxSigLen)}

InitVerify ==
    /\ variant \in {"index", "part000"}
    /\ env \in [LINE_CHANNEL_SECRET : {Secret, Secret + 1}, LINE_BOT_USER_ID : {BotId},
                ENABLE_DIRECT_CHAT_REPLY : {NoFlag}]
    /\ \E body \in VerifyBodies, sig \in HeaderValues :
         request = [method |-> "POST", signature |-> sig, body |-> body]
    /\ InitRest

NextVerify ==
    \/ RejectSignature
    \/ RejectParse
    \/ ThrowOnShape
    \/ AcceptBatch

SpecVerify == InitVerify /\ [][NextVerify]_vars

(* the handler went past verifyLineSignature *)
Verified == parsed \/ response # NoResponse

(* C12: verification succeeds exactly for the header that equals the base64
   HMAC of the body under the secret: it fails for an absent header and for
   every string that differs from it, the digest of any other body or under
   another secret included; a failed verification leaves nothing behind but
   the 401 response. *)
C12_VerifyResult ==
    Verified =>
      /\ (response.status # 401) <=> SignatureValid
      /\ ~request.signature.present => response.status = 401
      /\ response.status = 401 =>
            /\ ~parsed /\ events = <<>> /\ pc = <<>> /\ log = EmptyBag
            /\ queries = <<>> /\ replies = <<>>

(* a header of the right length that differs from the digest in one
   character was refused *)
C12_Witness ==
    /\ response.status = 401
    /\ request.signature.present
    /\ LET good == HmacBase64(request.body, env.LINE_CHANNEL_SECRET)
       IN  /\ Len(request.signature.value) = Len(good)
           /\ Cardinality({k \in 1..Len(good) : request.signature.value[k] # good[k]}) = 1

-----------------------------------------------------------------------------
(* C13: an event whose replyToken is missing or empty never leads to a
   reply-delivery call, and its pipeline does not fail. *)
C13_NoTokenNoDispatch ==
    Accepted =>
      \A i \in DOMAIN pc :
        (~events[i].isNull /\ events[i].replyToken = "") =>
            (replies[i] = <<>> /\ repResp[i] = "none")

-----------------------------------------------------------------------------
(* The direct-chat flag over many values (specification SpecFlag) *)

UpperOf(c) ==
    CASE c = "t" -> "T" [] c = "r" -> "R" [] c = "u" -> "U" [] c = "e" -> "E"
      [] c = "y" -> "Y" [] c = "s" -> "S" [] c = "o" -> "O" [] c = "n" -> "N"
      [] c = "p" -> "P" [] c = "f" -> "F" [] c = "a" -> "A" [] c = "l" -> "L"
      [] OTHER -> c

TruthyWords == { <<"t", "r", "u", "e">>, <<"1">>, <<"y", "e", "s">>, <<"o", "n">> }

OtherWords ==
    { <<>>, <<"n", "o", "p", "e">>, <<"0">>, <<"n", "o">>, <<"o", "f", "f">>,
      <<"f", "a", "l", "s", "e">>, <<"t", "r", "u">>, <<"o", "n", "n">>, <<"y">>,
      <<"o", " ", "n">>, <<"1", "1">> }

(* a word in lower case, in upper case, or capitalized *)
Cased(w) ==
    { w, [k \in 1..Len(w) |-> UpperOf(w[k])],
      [k \in 1..Len(w) |-> IF k = 1 THEN UpperOf(w[k]) ELSE w[k]] }

Blanks(n) == [k \in 1..n |-> " "]

FlagValues ==
    {NoFlag} \cup
    { Flag(Blanks(l) \o c \o Blanks(r)) :
        l \in 0..MaxPad, r \in 0..MaxPad,
        c \in UNION {Cased(w) : w \in TruthyWords \cup OtherWords} }

InitFlag ==
    /\ variant = "index"
    /\ env \in [LINE_CHANNEL_SECRET : {Secret}, LINE_BOT_USER_ID : {BotId},
                ENABLE_DIRECT_CHAT_REPLY : FlagValues]
    /\ request = ValidRequest(Batch(<<DirectAsk>>))
    /\ InitRest

SpecFlag == InitFlag /\ [][AcceptBatch]_vars

(* v is w up to the case of its letters *)
SameUpToCase(v, w) ==
    Len(v) = Len(w) /\ \A k \in 1..Len(w) : v[k] \in {w[k], UpperOf(w[k])}

(* v is blanks, then one of the four words in any case, then blanks *)
TruthyValue(v) ==
    \E w \in TruthyWords :
      \E l \in 0..(Len(v) - Len(w)) :
        /\ \A k \in 1..l : v[k] = " "
        /\ SameUpToCase(SubSeq(v, l + 1, l + Len(w)), w)
        /\ \A k \in (l + Len(w) + 1)..Len(v) : v[k] = " "

(* C14: direct chat is enabled exactly when the flag is set and its value,
   blanks around it and the case of its letters aside, is "true", "1", "yes"
   or "on"; with any other value, or none, a one-to-one message without a bot
   mention is not eligible. *)
C14_FlagParsing ==
    LET flag == env.ENABLE_DIRECT_CHAT_REPLY
    IN  /\ isDirectChatEnabled(env) <=> (flag.present /\ TruthyValue(flag.value))
        /\ Accepted =>
             \A i \in DOMAIN pc :
               (IsTextMessageEvent(events[i]) /\ OneToOneSource(events[i])
                  /\ ~MentionsBot(events[i]))
                 => (question[i].reached <=> (flag.present /\ TruthyValue(flag.value)))

(* a value that needed trimming and lower-casing enabled direct chat, and the
   one-to-one message went on to the answer backend *)
C14_Witness ==
    /\ Accepted
    /\ env.ENABLE_DIRECT_CHAT_REPLY.value \in {<<" ", "1", " ">>, <<"T", "R", "U", "E">>,
                                                <<"O", "n">>}
    /\ queries[1] # <<>>

-----------------------------------------------------------------------------
(* Answers around the length cap (specification SpecReply) *)

(* an answer of n characters, none of them blank, whose k-th character
   depends on k *)
LongText(n) == [k \in 1..n |-> IF k % 3 = 0 THEN "a" ELSE IF k % 3 = 1 THEN "b" ELSE "c"]

LongResponses ==
    { [ok |-> TRUE, text |-> Blanks(l) \o LongText(n) \o Blanks(r)] :
        l \in 0..1, r \in 0..1, n \in (MaxReplyChars - 2)..(MaxReplyChars + MaxOver) }

InitReply ==
    /\ variant \in {"index", "part000"}
    /\ env = DirectChatOn
    /\ \E e \in {GroupAsk, DirectAsk} : request = ValidRequest(Batch(<<e>>))
    /\ backend = AnswerResponses \cup LongResponses
    /\ InitPipelines

SpecReply == InitReply /\ [][NextEvent]_vars

(* C15: the text of every reply-delivery call has at most 1900 characters,
   is not empty and is a prefix of the trimmed text the answer backend
   returned for that event. *)
C15_TruncatedBeforeDispatch ==
    \A i \in DOMAIN replies :
      \A k \in 1..Len(replies[i]) :
        LET sent == replies[i][k].text
            full == Trim(ansResp[i].text)
        IN  /\ Len(sent) <= MaxReplyChars
            /\ sent # <<>>
            /\ Len(sent) <= Len(full)
            /\ sent = SubSeq(full, 1, Len(sent))

(* an answer longer than the cap was cut to the cap and dispatched *)
C15_Witness ==
    \E i \in DOMAIN replies :
      /\ replies[i] # <<>>
      /\ Len(Trim(ansResp[i].text)) > MaxReplyChars
      /\ Len(replies[i][1].text) = MaxReplyChars

-----------------------------------------------------------------------------
ErrorLogged(i) == CopiesIn(<<"Error handling event", i>>, log)

(* C16: once the batch is done, every failed event of it has been logged by
   the handler, once, whatever the number of failed events, no other event
   has, and the caller was answered 200. *)
C16_FailuresLogged ==
    (Accepted /\ response # NoResponse /\ \A i \in DOMAIN pc : pc[i] \in Settled) =>
      /\ \A i \in DOMAIN pc : ErrorLogged(i) = (IF pc[i] = "failed" THEN 1 ELSE 0)
      /\ response = Response("OK", 200)

-----------------------------------------------------------------------------
(* Completion of the batch, every outbound call returning in the end
   (specification SpecLive) *)

LivePool == {GroupAsk, NullEvent}

InitLive ==
    /\ variant \in {"index", "part000"}
    /\ env = DirectChatOn
    /\ \E evs \in SeqsUpTo(LivePool, MaxEvents) : request = ValidRequest(Batch(evs))
    /\ InitRest

(* the handler runs, every outbound call returns, settled promises run their
   continuations *)
SpecLive ==
    /\ InitLive
    /\ [][NextEvent]_vars
    /\ WF_vars(AcceptBatch)
    /\ WF_vars(\E i \in DOMAIN pc : AnswerReturns(i))
    /\ WF_vars(\E i \in DOMAIN pc : ReplyReturns(i))
    /\ WF_vars(AggregateSettles)
    /\ WF_vars(Respond)

AllSettled == \A i \in DOMAIN pc : pc[i] \in Settled

(* one pipeline per event, each run up to its answer call, before any
   answer has come back *)
LaunchedTogether ==
    (Accepted /\ \A i \in DOMAIN ansResp : ~ansResp[i].returned) =>
      /\ Len(pc) = Len(request.body.events)
      /\ \A i \in DOMAIN pc : Asks(events[i]) => (pc[i] = "awaitAnswer" /\ Len(queries[i]) = 1)

(* C17: the handler launches one pipeline per event, all of them before any
   answer is awaited; the aggregate never rejects and is resolved only once
   every pipeline has settled; and every launched pipeline eventually
   settles, the aggregate eventually resolves, and the request is
   eventually acknowledged. *)
C17_BatchCompletion ==
    /\ [](LaunchedTogether)
    /\ [](aggregate # "rejected")
    /\ [](aggregate = "resolved" => AllSettled)
    /\ [](Accepted => aggregate # "none")
    /\ (Accepted ~> (AllSettled /\ aggregate = "resolved" /\ response = Response("OK", 200)))

(* the aggregate of three pipelines resolved, one of them failed after its
   answer call, one replied *)
C17_Witness ==
    /\ aggregate = "resolved"
    /\ Len(events) = 3
    /\ \E i, j \in DOMAIN pc : AnswerFailed(i) /\ repResp[j] = "ok"

-----------------------------------------------------------------------------
(* Replies of concurrent pipelines whose answers differ (specification
   SpecWire) *)

MaxWire == 2

WirePool == {GroupAsk, DirectAsk, GroupAskNoToken}

(* a failure and two answers that differ *)
WireResponses ==
    { [ok |-> FALSE, text |-> <<>>],
      [ok |-> TRUE,  text |-> <<" ", "o", "k", " ">>],
      [ok |-> TRUE,  text |-> <<"n", "o">>] }

InitWire ==
    /\ variant \in {"index", "part000"}
    /\ env = DirectChatOn
    /\ \E evs \in SeqsUpTo(WirePool, MaxWire) : request = ValidRequest(Batch(evs))
    /\ backend = WireResponses
    /\ InitPipelines

SpecWire == InitWire /\ [][NextEvent]_vars

(* C18: under every interleaving of the pipelines, a reply-delivery call
   made for an event carries the token of that event and the text derived
   (trimmed, cut at the cap) from the answer returned to that event's own
   answer call; an event gets at most one such call, and an event whose
   answer call failed gets none, so no text made up by the relay is sent. *)
C18_NoCrossWiring ==
    Accepted =>
      \A i \in DOMAIN pc :
        /\ Len(replies[i]) <= 1
        /\ AnswerFailed(i) => replies[i] = <<>>
        /\ \A k \in DOMAIN replies[i] :
             /\ replies[i][k].replyToken = events[i].replyToken
             /\ ansResp[i].returned /\ ansResp[i].ok
             /\ replies[i][k].text = Slice(Trim(ansResp[i].text), 0, MaxReplyChars)

(* two events with different tokens were answered differently, the second
   one first, and each reply carries its own token and answer *)
C18_Witness ==
    /\ Len(events) = 2
    /\ events[1].replyToken # events[2].replyToken
    /\ replies[1] # <<>> /\ replies[2] # <<>>
    /\ replies[1][1].text = <<"n", "o">>
    /\ replies[2][1].text = <<"o", "k">>
    /\ repResp[2] = "ok" /\ repResp[1] = "none"

-----------------------------------------------------------------------------
(* The comparison of signature strings over all pairs of short strings
   (specification SpecVerify: the digest of the body against every header
   value) *)

Computed == HmacBase64(request.body, env.LINE_CHANNEL_SECRET)

(* C19: the comparison returns true exactly when its two strings are equal:
   false when the lengths differ, false when the lengths agree and the
   strings differ in any position, the last one included, true when they
   are equal; and the handler acts on that result. *)
C19_ComparisonIsEquality ==
    (Verified /\ request.signature.present /\ request.signature.value # <<>>) =>
      LET a == Computed
          b == request.signature.value
      IN  /\ timingSafeEqual(a, b) <=> (a = b)
          /\ Len(a) # Len(b) => ~timingSafeEqual(a, b)
          /\ (Len(a) = Len(b) /\ \E k \in DOMAIN a : a[k] # b[k]) => ~timingSafeEqual(a, b)
          /\ (response.status = 401) <=> ~timingSafeEqual(a, b)
          /\ (response.status = 401) <=> (a # b)

(* a header that agrees with the digest but for its last character was
   refused *)
C19_Witness ==
    /\ response.status = 401
    /\ request.signature.present
    /\ Len(request.signature.value) = Len(Computed)
    /\ \A k \in 1..(Len(Computed) - 1) : request.signature.value[k] = Computed[k]
    /\ request.signature.value[Len(Computed)] # Computed[Len(Computed)]

====
